---------------------------- MODULE Spec2Model ----------------------------
(***************************************************************************)
(* A model of codebase_context/main.py: the walker (scan_codebase and      *)
(* should_include_file), the selector and the renderer's writes            *)
(* (generate_context_file) and the exit paths of main.                     *)
(*                                                                         *)
(* A Python str is modelled as the sequence of its code points, so that    *)
(* str.lower, Path.suffix, tuple membership and the ordering of str keys   *)
(* are computed as Python computes them.  A path is the sequence of its    *)
(* parts (Path.parts).  A file's content is modelled by its length, the    *)
(* only thing estimate_tokens reads.  Paths are POSIX paths: str(path)     *)
(* joins the parts with "/".                                               *)
(***************************************************************************)
EXTENDS Integers, Sequences, FiniteSets

VARIABLES
  root,             \* Path(root_path).parts
  tree,             \* the regular files beneath root: [path, size, readable]
  extensions,       \* args.extensions, <<>> when the option is absent
  priority_files,   \* args.priority, <<>> when the option is absent
  max_tokens,       \* args.max_tokens
  pc,               \* the position of the run
  pending,          \* entries root.rglob('*') has not yielded yet
  files_data,       \* scan_codebase / generate_context_file: files_data
  total_tokens,     \* scan_codebase: total_tokens
  selected_files,   \* generate_context_file: selected_files
  running_tokens,   \* generate_context_file: running_tokens
  idx,              \* position of the running for loop in its list
  out_file,         \* the destination file on disk
  exit_code,        \* the process's exit status, -1 while it runs
  scan_order,       \* history: files_data as scanned, before the sort
  rerun,            \* history: TRUE in a second run over the same tree
  prev_selected,    \* history: the first run's selected_files
  prev_scan_order   \* history: the first run's scan_order

vars == << root, tree, extensions, priority_files, max_tokens, pc, pending,
           files_data, total_tokens, selected_files, running_tokens, idx,
           out_file, exit_code, scan_order, rerun, prev_selected,
           prev_scan_order >>

inputs == << root, tree, extensions, priority_files, max_tokens >>

history == << rerun, prev_selected, prev_scan_order >>

----------------------------------------------------------------------------
(* The constant tables, main.py lines 14-35.                               *)

CODE_EXTENSIONS ==
  { <<46, 112, 121>>,                                                              \* .py
    <<46, 106, 115>>,                                                              \* .js
    <<46, 106, 115, 120>>,                                                         \* .jsx
    <<46, 116, 115>>,                                                              \* .ts
    <<46, 116, 115, 120>>,                                                         \* .tsx
    <<46, 106, 97, 118, 97>>,                                                      \* .java
    <<46, 99>>,                                                                    \* .c
    <<46, 99, 112, 112>>,                                                          \* .cpp
    <<46, 104>>,                                                                   \* .h
    <<46, 104, 112, 112>>,                                                         \* .hpp
    <<46, 99, 115>>,                                                               \* .cs
    <<46, 103, 111>>,                                                              \* .go
    <<46, 114, 115>>,                                                              \* .rs
    <<46, 114, 98>>,                                                               \* .rb
    <<46, 112, 104, 112>>,                                                         \* .php
    <<46, 115, 119, 105, 102, 116>>,                                               \* .swift
    <<46, 107, 116>>,                                                              \* .kt
    <<46, 115, 99, 97, 108, 97>>,                                                  \* .scala
    <<46, 114>>,                                                                   \* .r
    <<46, 104, 116, 109, 108>>,                                                    \* .html
    <<46, 99, 115, 115>>,                                                          \* .css
    <<46, 115, 99, 115, 115>>,                                                     \* .scss
    <<46, 115, 97, 115, 115>>,                                                     \* .sass
    <<46, 118, 117, 101>>,                                                         \* .vue
    <<46, 115, 118, 101, 108, 116, 101>>,                                          \* .svelte
    <<46, 106, 115, 111, 110>>,                                                    \* .json
    <<46, 121, 97, 109, 108>>,                                                     \* .yaml
    <<46, 121, 109, 108>>,                                                         \* .yml
    <<46, 116, 111, 109, 108>>,                                                    \* .toml
    <<46, 120, 109, 108>>,                                                         \* .xml
    <<46, 115, 113, 108>>,                                                         \* .sql
    <<46, 115, 104>>,                                                              \* .sh
    <<46, 98, 97, 115, 104>>,                                                      \* .bash
    <<46, 112, 115, 49>>,                                                          \* .ps1
    <<46, 98, 97, 116>>,                                                           \* .bat
    <<46, 109, 100>>,                                                              \* .md
    <<46, 116, 120, 116>>,                                                         \* .txt
    <<46, 114, 115, 116>> }                                                        \* .rst

SKIP_DIRS ==
  { <<110, 111, 100, 101, 95, 109, 111, 100, 117, 108, 101, 115>>,                 \* node_modules
    <<118, 101, 110, 118>>,                                                        \* venv
    <<101, 110, 118>>,                                                             \* env
    <<46, 101, 110, 118>>,                                                         \* .env
    <<95, 95, 112, 121, 99, 97, 99, 104, 101, 95, 95>>,                            \* __pycache__
    <<46, 103, 105, 116>>,                                                         \* .git
    <<46, 115, 118, 110>>,                                                         \* .svn
    <<100, 105, 115, 116>>,                                                        \* dist
    <<98, 117, 105, 108, 100>>,                                                    \* build
    <<116, 97, 114, 103, 101, 116>>,                                               \* target
    <<98, 105, 110>>,                                                              \* bin
    <<111, 98, 106>>,                                                              \* obj
    <<46, 105, 100, 101, 97>>,                                                     \* .idea
    <<46, 118, 115, 99, 111, 100, 101>>,                                           \* .vscode
    <<99, 111, 118, 101, 114, 97, 103, 101>>,                                      \* coverage
    <<46, 112, 121, 116, 101, 115, 116, 95, 99, 97, 99, 104, 101>>,                \* .pytest_cache
    <<46, 109, 121, 112, 121, 95, 99, 97, 99, 104, 101>>,                          \* .mypy_cache
    <<118, 101, 110, 100, 111, 114>>,                                              \* vendor
    <<98, 111, 119, 101, 114, 95, 99, 111, 109, 112, 111, 110, 101, 110, 116, 115>>, \* bower_components
    <<42, 95, 118, 101, 110, 118>> }                                               \* *_venv

SKIP_FILES ==
  { <<46, 68, 83, 95, 83, 116, 111, 114, 101>>,                                    \* .DS_Store
    <<84, 104, 117, 109, 98, 115, 46, 100, 98>>,                                   \* Thumbs.db
    <<46, 103, 105, 116, 105, 103, 110, 111, 114, 101>>,                           \* .gitignore
    <<46, 100, 111, 99, 107, 101, 114, 105, 103, 110, 111, 114, 101>>,             \* .dockerignore
    <<112, 97, 99, 107, 97, 103, 101, 45, 108, 111, 99, 107, 46, 106, 115, 111, 110>>, \* package-lock.json
    <<121, 97, 114, 110, 46, 108, 111, 99, 107>>,                                  \* yarn.lock
    <<112, 111, 101, 116, 114, 121, 46, 108, 111, 99, 107>>,                       \* poetry.lock
    <<80, 105, 112, 102, 105, 108, 101, 46, 108, 111, 99, 107>> }                  \* Pipfile.lock

----------------------------------------------------------------------------
(* Python's str, tuple and pathlib operations.                             *)

Range(s) == { s[i] : i \in 1..Len(s) }

Max(S) == CHOOSE m \in S : \A n \in S : n <= m

\* str.lower() on ASCII: "A".."Z" (65..90) map to "a".."z".
Lower(s) == [ i \in 1..Len(s) |-> IF s[i] \in 65..90 THEN s[i] + 32 ELSE s[i] ]

\* str.rfind("."), 1-based; 0 when there is no dot (Python's -1).
RFindDot(name) ==
  LET I == { i \in 1..Len(name) : name[i] = 46 }
  IN  IF I = {} THEN 0 ELSE Max(I)

\* PurePath.name: the last part.
PathName(parts) == parts[Len(parts)]

\* PurePath.suffix: name[i:] when 0 < i < len(name) - 1 (0-based i), else ''.
Suffix(name) ==
  LET i == RFindDot(name)
  IN  IF 1 < i /\ i < Len(name) THEN SubSeq(name, i, Len(name)) ELSE << >>

\* str(path) of a relative path: its parts joined with "/" (47).
RECURSIVE Str(_)
Str(parts) ==
  IF Len(parts) = 0 THEN << >>
  ELSE IF Len(parts) = 1 THEN parts[1]
  ELSE parts[1] \o << 47 >> \o Str(Tail(parts))

\* s < t on str: code point order, a proper prefix is smaller.
StrLess(s, t) ==
  \E i \in 1..Len(t) :
     /\ \A j \in 1..(i - 1) : j <= Len(s) /\ s[j] = t[j]
     /\ (i > Len(s) \/ s[i] < t[i])

\* Whether needle occurs in hay as a substring (str's `in`).
IsSubstring(needle, hay) ==
  \E k \in 0..(Len(hay) - Len(needle)) :
     SubSeq(hay, k + 1, k + Len(needle)) = needle

\* estimate_tokens: len(text) // 4.
estimate_tokens(size) == size \div 4

----------------------------------------------------------------------------
(* The walker's tests.                                                     *)

\* main, line 282: set(args.extensions) if args.extensions else None.
\* None is modelled as {}: line 66 treats both as "use CODE_EXTENSIONS".
custom_ext == IF Len(extensions) > 0 THEN Range(extensions) ELSE {}

\* line 67, left operand: path.suffix.lower() in extensions.
SuffixInExtensions(name, exts) == Lower(Suffix(name)) \in exts

\* should_include_file, lines 57-67.
should_include_file(parts, custom_extensions) ==
  LET name == PathName(parts)
      exts == IF custom_extensions # {} THEN custom_extensions
              ELSE CODE_EXTENSIONS
  IN  /\ name \notin SKIP_FILES
      /\ (SuffixInExtensions(name, exts) \/ Suffix(name) = << >>)

\* Mutant of InSkipDir: a skip name matches as a substring of a part.
InSkipDirSubstring(parts) ==
  \E skip_dir \in SKIP_DIRS : \E i \in 1..Len(parts) :
     IsSubstring(skip_dir, parts[i])

\* line 81: any(skip_dir in filepath.parts for skip_dir in SKIP_DIRS);
\* filepath.parts holds the root's parts, the directories and the base name.
InSkipDir(parts) == \E skip_dir \in SKIP_DIRS : skip_dir \in Range(parts)

\* get_file_info, lines 41-55: None (modelled as no record) when the read
\* raises.  'lines' and 'content' are left out: no decision reads them.
FileRecord(f) ==
  [ path |-> f.path, size |-> f.size, tokens |-> estimate_tokens(f.size) ]

\* The directories root.rglob('*') yields besides the files.
Dirs(t) ==
  UNION { { SubSeq(f.path, 1, k) : k \in 1..(Len(f.path) - 1) } : f \in t }

----------------------------------------------------------------------------
(* The sort of line 102 and the selector's lists.                          *)

\* Mutant of KeyLess: the sort key is the token estimate alone.
KeyLessTokensOnly(x, y) == x.tokens < y.tokens

\* Order of the keys (x['tokens'], str(x['path'])) of line 102.
KeyLess(x, y) ==
  \/ x.tokens < y.tokens
  \/ x.tokens = y.tokens /\ StrLess(Str(x.path), Str(y.path))

\* x put into the sorted s behind every element whose key is not greater.
Insert(s, x) ==
  LET k == Cardinality({ i \in 1..Len(s) : ~KeyLess(x, s[i]) })
  IN  SubSeq(s, 1, k) \o << x >> \o SubSeq(s, k + 1, Len(s))

\* list.sort(key=...), line 102: a stable sort.
RECURSIVE SortFiles(_)
SortFiles(s) ==
  IF Len(s) = 0 THEN << >>
  ELSE Insert(SortFiles(SubSeq(s, 1, Len(s) - 1)), s[Len(s)])

\* A list comprehension [f for f in s if Keep(f)].
RECURSIVE Filter(_, _)
Filter(s, keep) ==
  IF Len(s) = 0 THEN << >>
  ELSE IF s[1] \in keep THEN << s[1] >> \o Filter(Tail(s), keep)
  ELSE Filter(Tail(s), keep)

\* line 179: [f for f in files_data if str(f['path']) in priority_set].
priority_data(files, priority_set) ==
  Filter(files, { f \in Range(files) : Str(f.path) \in priority_set })

\* Mutant of other_data: the whole list, the priority files a second time.
other_data_unfiltered(files, priority_set) == files

\* line 180: [f for f in files_data if str(f['path']) not in priority_set].
other_data(files, priority_set) ==
  Filter(files, { f \in Range(files) : Str(f.path) \notin priority_set })

\* Mutant of Overflows: the total is tested before the file is added.
OverflowsTestedBeforeAdding(running, tokens, budget) == running > budget

\* line 184: running_tokens + file_info['tokens'] > max_tokens.
Overflows(running, tokens, budget) == running + tokens > budget

RECURSIVE SumTokens(_)
SumTokens(s) == IF Len(s) = 0 THEN 0 ELSE s[1].tokens + SumTokens(Tail(s))

----------------------------------------------------------------------------
(* The inputs the runs are drawn from.                                     *)

MaxFiles    == 3    \* most files in a tree
MaxPriority == 2    \* longest priority list
MaxBudget   == 3    \* largest budget of the selection runs

a_py      == << 97, 46, 112, 121 >>                              \* a.py
b_py      == << 98, 46, 112, 121 >>                              \* b.py
b_PY      == << 98, 46, 80, 89 >>                                \* b.PY
x_py      == << 120, 46, 112, 121 >>                             \* x.py
main_py   == << 109, 97, 105, 110, 46, 112, 121 >>               \* main.py
locked_py == << 108, 111, 99, 107, 101, 100, 46, 112, 121 >>     \* locked.py
yarn_lock == << 121, 97, 114, 110, 46, 108, 111, 99, 107 >>      \* yarn.lock
Makefile  == << 77, 97, 107, 101, 102, 105, 108, 101 >>          \* Makefile
src       == << 115, 114, 99 >>                                  \* src
build     == << 98, 117, 105, 108, 100 >>                        \* build
builder   == << 98, 117, 105, 108, 100, 101, 114 >>              \* builder
my_venv   == << 109, 121, 95, 118, 101, 110, 118 >>              \* my_venv
proj      == << 112, 114, 111, 106 >>                            \* proj
home      == << 104, 111, 109, 101 >>                            \* home
user      == << 117 >>                                           \* u
slash     == << 47 >>                                            \* /
dot_py    == << 46, 112, 121 >>                                  \* .py
dot_PY    == << 46, 80, 89 >>                                    \* .PY
src_main_py == << 115, 114, 99, 47, 109, 97, 105, 110, 46, 112, 121 >>
                                                                 \* src/main.py

File(path, size, readable) ==
  [ path |-> path, size |-> size, readable |-> readable ]

\* The scan roots: `proj` and `/home/u/build/proj`.
PlainRoot == << proj >>
BuildRoot == << slash, home, user, build, proj >>

\* Files of the walker's runs: one per case of the exclusion rules.
WalkFiles ==
  { File(<< a_py >>, 8, TRUE),
    File(<< b_PY >>, 4, TRUE),
    File(<< Makefile >>, 4, TRUE),
    File(<< build >>, 4, TRUE),
    File(<< build, x_py >>, 4, TRUE),
    File(<< builder, x_py >>, 5, TRUE),
    File(<< my_venv, x_py >>, 4, TRUE),
    File(<< yarn_lock >>, 4, TRUE),
    File(<< locked_py >>, 4, FALSE) }

\* Files of the selector's runs: 0, 1 and 2 tokens, with ties.
SelectFiles ==
  { File(<< a_py >>, 4, TRUE),
    File(<< a_py >>, 9, TRUE),
    File(<< b_py >>, 4, TRUE),
    File(<< src, main_py >>, 0, TRUE),
    File(<< src, main_py >>, 9, TRUE) }

Trees(files) ==
  { t \in SUBSET files :
      /\ Cardinality(t) <= MaxFiles
      /\ \A f, g \in t : f.path = g.path => f = g }

Lists(S, n) == UNION { [ 1..k -> S ] : k \in 0..n }

InitRun ==
  /\ pc = "scan"
  /\ pending = { f.path : f \in tree } \cup Dirs(tree)
  /\ files_data = << >>
  /\ total_tokens = 0
  /\ selected_files = << >>
  /\ running_tokens = 0
  /\ idx = 1
  /\ exit_code = -1
  /\ scan_order = << >>

InitCommon ==
  /\ InitRun
  /\ out_file = [ exists |-> FALSE, header |-> FALSE, blocks |-> << >>,
                  complete |-> FALSE ]
  /\ rerun = FALSE
  /\ prev_selected = << >>
  /\ prev_scan_order = << >>

\* Runs that vary the tree, the root and --extensions.
InitWalk ==
  /\ root \in { PlainRoot, BuildRoot }
  /\ tree \in Trees(WalkFiles)
  /\ extensions \in { << >>, << dot_py >>, << dot_PY >> }
  /\ priority_files = << >>
  /\ max_tokens = MaxBudget
  /\ InitCommon

\* Runs that vary the sizes, --priority and --max-tokens.  A priority path
\* names no candidate in the trees that lack it.
InitSelect ==
  /\ root = PlainRoot
  /\ tree \in Trees(SelectFiles)
  /\ extensions = << >>
  /\ priority_files \in Lists({ b_py, src_main_py }, MaxPriority)
  /\ max_tokens \in -1..MaxBudget
  /\ InitCommon

Init == InitWalk \/ InitSelect

----------------------------------------------------------------------------
(* scan_codebase, lines 69-104.                                            *)

FileAt(p) == CHOOSE f \in tree : f.path = p

\* Whether the loop body of lines 75-99 appends the entry at relative path p.
IsListed(p) ==
  /\ p \notin Dirs(tree)                                \* line 77
  /\ ~InSkipDir(root \o p)                              \* line 81
  /\ should_include_file(root \o p, custom_ext)         \* line 85
  /\ FileAt(p).readable                                 \* line 90

\* One iteration of the loop of line 75: rglob yields some entry not yet
\* seen (its order is the directory order, not specified).
ScanStep ==
  /\ pc = "scan"
  /\ \E p \in pending :
       /\ pending' = pending \ { p }
       /\ IF IsListed(p)
          THEN /\ files_data' = Append(files_data, FileRecord(FileAt(p)))
               /\ total_tokens' = total_tokens + estimate_tokens(FileAt(p).size)
          ELSE UNCHANGED << files_data, total_tokens >>
  /\ UNCHANGED << inputs, history, pc, selected_files, running_tokens, idx,
                  out_file, exit_code, scan_order >>

\* The loop is exhausted: the sort of line 102 and the return.
ScanDone ==
  /\ pc = "scan"
  /\ pending = {}
  /\ scan_order' = files_data
  /\ files_data' = SortFiles(files_data)
  /\ pc' = "prioritize"
  /\ UNCHANGED << inputs, history, pending, total_tokens, selected_files,
                  running_tokens, idx, out_file, exit_code >>

----------------------------------------------------------------------------
(* generate_context_file, lines 172-226.                                   *)

\* lines 173-181.
Prioritize ==
  /\ pc = "prioritize"
  /\ selected_files' = << >>
  /\ running_tokens' = 0
  /\ files_data' =
       IF Len(priority_files) > 0
       THEN LET priority_set == Range(priority_files)
            IN  priority_data(files_data, priority_set)
                  \o other_data(files_data, priority_set)
       ELSE files_data
  /\ idx' = 1
  /\ pc' = "select"
  /\ UNCHANGED << inputs, history, pending, total_tokens, out_file,
                  exit_code, scan_order >>

\* lines 183-188, an iteration that takes the file.
SelectInclude ==
  /\ pc = "select"
  /\ idx <= Len(files_data)
  /\ ~Overflows(running_tokens, files_data[idx].tokens, max_tokens)
  /\ selected_files' = Append(selected_files, files_data[idx])
  /\ running_tokens' = running_tokens + files_data[idx].tokens
  /\ idx' = idx + 1
  /\ UNCHANGED << inputs, history, pc, pending, files_data, total_tokens,
                  out_file, exit_code, scan_order >>

\* Mutant of SelectBreak: the overflowing file is skipped and the walk goes on.
SelectSkip ==
  /\ pc = "select"
  /\ idx <= Len(files_data)
  /\ Overflows(running_tokens, files_data[idx].tokens, max_tokens)
  /\ idx' = idx + 1
  /\ UNCHANGED << inputs, history, pc, pending, files_data, total_tokens,
                  selected_files, running_tokens, out_file, exit_code,
                  scan_order >>

\* lines 184-186, the break.
SelectBreak ==
  /\ pc = "select"
  /\ idx <= Len(files_data)
  /\ Overflows(running_tokens, files_data[idx].tokens, max_tokens)
  /\ pc' = "open"
  /\ UNCHANGED << inputs, history, pending, files_data, total_tokens,
                  selected_files, running_tokens, idx, out_file, exit_code,
                  scan_order >>

\* line 183, the list is exhausted.
SelectEnd ==
  /\ pc = "select"
  /\ idx > Len(files_data)
  /\ pc' = "open"
  /\ UNCHANGED << inputs, history, pending, files_data, total_tokens,
                  selected_files, running_tokens, idx, out_file, exit_code,
                  scan_order >>

\* The frames of a run that ended by an exception are gone.
Unwound ==
  /\ pending' = {}
  /\ files_data' = << >>
  /\ total_tokens' = 0
  /\ selected_files' = << >>
  /\ running_tokens' = 0
  /\ idx' = 1
  /\ scan_order' = << >>

\* line 191: open(output_file, 'w') creates or truncates the destination.
OpenOutput ==
  /\ pc = "open"
  /\ out_file' = [ exists |-> TRUE, header |-> FALSE, blocks |-> << >>,
                   complete |-> FALSE ]
  /\ pc' = "header"
  /\ UNCHANGED << inputs, history, pending, files_data, total_tokens,
                  selected_files, running_tokens, idx, exit_code, scan_order >>

\* line 191 raises OSError; main, lines 302-304: exit status 1.
OpenFails ==
  /\ pc = "open"
  /\ pc' = "failed"
  /\ exit_code' = 1
  /\ Unwound
  /\ UNCHANGED << inputs, history, out_file >>

\* lines 193-211: header, summary, tree and the banner of the contents.
WriteHeader ==
  /\ pc = "header"
  /\ out_file' = [ out_file EXCEPT !.header = TRUE ]
  /\ idx' = 1
  /\ pc' = "files"
  /\ UNCHANGED << inputs, history, pending, files_data, total_tokens,
                  selected_files, running_tokens, exit_code, scan_order >>

\* lines 213-219: the block of one selected file.
WriteFile ==
  /\ pc = "files"
  /\ idx <= Len(selected_files)
  /\ out_file' = [ out_file EXCEPT
                     !.blocks = Append(@, selected_files[idx].path) ]
  /\ idx' = idx + 1
  /\ UNCHANGED << inputs, history, pc, pending, files_data, total_tokens,
                  selected_files, running_tokens, exit_code, scan_order >>

\* The with block ends, lines 221-226, and main returns: exit status 0.
CloseOutput ==
  /\ pc = "files"
  /\ idx > Len(selected_files)
  /\ out_file' = [ out_file EXCEPT !.complete = TRUE ]
  /\ pc' = "done"
  /\ exit_code' = 0
  /\ UNCHANGED << inputs, history, pending, files_data, total_tokens,
                  selected_files, running_tokens, idx, scan_order >>

\* KeyboardInterrupt anywhere in generate_context_file; main, lines 299-301.
\* Inside the with block the file is closed with what was written so far.
Interrupt ==
  /\ pc \in { "scan", "prioritize", "select", "open", "header", "files" }
  /\ out_file' =
       IF pc \in { "header", "files" }
       THEN [ out_file EXCEPT
                !.complete = (pc = "files" /\ idx > Len(selected_files)) ]
       ELSE out_file
  /\ pc' = "cancelled"
  /\ exit_code' = 1
  /\ Unwound
  /\ UNCHANGED << inputs, history >>

\* The user runs the command again on the unchanged tree with the same
\* arguments; the destination is outside the tree.
Rerun ==
  /\ pc = "done"
  /\ ~rerun
  /\ rerun' = TRUE
  /\ prev_selected' = selected_files
  /\ prev_scan_order' = scan_order
  /\ pc' = "scan"
  /\ pending' = { f.path : f \in tree } \cup Dirs(tree)
  /\ files_data' = << >>
  /\ total_tokens' = 0
  /\ selected_files' = << >>
  /\ running_tokens' = 0
  /\ idx' = 1
  /\ exit_code' = -1
  /\ scan_order' = << >>
  /\ UNCHANGED << inputs, out_file >>

----------------------------------------------------------------------------
(* Positions of a run and views of its lists, used by the properties.      *)

AfterScan == pc \in { "prioritize", "select", "open", "header", "files", "done" }

AfterPrioritize == pc \in { "select", "open", "header", "files", "done" }

LoopEnded == pc \in { "open", "header", "files", "done" }

Paths(s) == { s[i].path : i \in 1..Len(s) }

Occurrences(s, p) == Cardinality({ i \in 1..Len(s) : s[i].path = p })

\* s[1..k]
Prefix(s, k) == SubSeq(s, 1, k)

\* A part of the path that equals a skip-directory name, letter for letter.
HasSkipSegment(parts) == \E i \in 1..Len(parts) : parts[i] \in SKIP_DIRS

\* A directory of the path (every part but the base name) named as a
\* skip-directory.
UnderSkipDir(parts) ==
  \E i \in 1..(Len(parts) - 1) : parts[i] \in SKIP_DIRS

\* The extension allow-list in force.
ActiveExtensions == IF custom_ext # {} THEN custom_ext ELSE CODE_EXTENSIONS

\* Ascending (estimatedTokens, relativePath).
Ascending(x, y) ==
  \/ x.tokens < y.tokens
  \/ x.tokens = y.tokens /\ StrLess(Str(x.path), Str(y.path))

----------------------------------------------------------------------------
(* C1.  As claimed: for every integer budget, running_tokens <= max_tokens *)
(* after every iteration of the selection loop, and the token estimates of *)
(* the selected files sum to at most max_tokens when the loop has ended.   *)
C1_BudgetNeverExceeded ==
  /\ pc = "select" => running_tokens <= max_tokens
  /\ LoopEnded => SumTokens(selected_files) <= max_tokens

(* C1, amended.  The same for every budget max_tokens >= 0: a negative     *)
(* budget is below the empty selection's total of 0.                       *)
C1_BudgetRespectedWhenNonNegative ==
  max_tokens >= 0 =>
    /\ pc = "select" => running_tokens <= max_tokens
    /\ LoopEnded => SumTokens(selected_files) <= max_tokens

\* The loop ended by its break with two files taken and the budget used up.
C1_Witness ==
  /\ pc = "open"
  /\ max_tokens >= 0
  /\ Len(selected_files) = 2
  /\ Len(files_data) = 3
  /\ SumTokens(selected_files) = max_tokens

----------------------------------------------------------------------------
(* C2.  The selection is a prefix of the candidate order: the walk stops   *)
(* at the first file whose tokens would take the running total above the   *)
(* budget, and no file behind it is selected.  When the first file alone   *)
(* is above the budget the selection is empty.                             *)
C2_SelectionIsPrefix ==
  /\ pc = "select" => selected_files = Prefix(files_data, idx - 1)
  /\ LoopEnded =>
       LET k == Len(selected_files)
       IN  /\ k <= Len(files_data)
           /\ selected_files = Prefix(files_data, k)
           /\ \A j \in 1..k : SumTokens(Prefix(files_data, j)) <= max_tokens
           /\ k < Len(files_data) =>
                SumTokens(Prefix(files_data, k + 1)) > max_tokens
           /\ (Len(files_data) > 0 /\ files_data[1].tokens > max_tokens) => k = 0

\* The priority file src/main.py is above the budget and comes first, so
\* nothing is selected although a later file is within the budget.
C2_Witness ==
  /\ pc = "done"
  /\ priority_files = << src_main_py >>
  /\ Len(files_data) >= 2
  /\ Str(files_data[1].path) = src_main_py
  /\ files_data[1].tokens > max_tokens
  /\ \E i \in 2..Len(files_data) : files_data[i].tokens <= max_tokens
  /\ selected_files = << >>

----------------------------------------------------------------------------
(* C3.  As claimed: candidates named by the priority list are walked in    *)
(* the order in which the caller listed them.                              *)
C3_PriorityInCallerOrder ==
  AfterPrioritize =>
    \A i, j \in 1..Len(priority_files) :
      (i < j /\ priority_files[i] # priority_files[j]) =>
        \A m, n \in 1..Len(files_data) :
          ( /\ Str(files_data[m].path) = priority_files[i]
            /\ Str(files_data[n].path) = priority_files[j] ) => m < n

----------------------------------------------------------------------------
(* C4.  The order the selector walks is a permutation of the candidates:   *)
(* each candidate once, those whose str(path) is in the priority list      *)
(* before all the others, the others in ascending (tokens, path) order.    *)
C4_WalkOrderIsPartitionedPermutation ==
  AfterPrioritize =>
    LET cands == { f.path : f \in { g \in tree : IsListed(g.path) } }
        named(i) == Str(files_data[i].path) \in Range(priority_files)
        n == Len(files_data)
    IN  /\ Paths(files_data) = cands
        /\ \A p \in cands : Occurrences(files_data, p) = 1
        /\ \A i, j \in 1..n : (named(i) /\ ~named(j)) => i < j
        /\ \A i, j \in 1..n :
             (i < j /\ ~named(i) /\ ~named(j)) =>
                Ascending(files_data[i], files_data[j])

\* The priority list repeats b.py; b.py is walked first, once, although
\* another candidate has a smaller key.
C4_Witness ==
  /\ pc = "select"
  /\ priority_files = << b_py, b_py >>
  /\ Len(files_data) = 3
  /\ Str(files_data[1].path) = b_py
  /\ Ascending(files_data[2], files_data[1])

----------------------------------------------------------------------------
(* C5.  A second run over the same candidates with the same budget and     *)
(* priority list selects the same files in the same order, whatever order  *)
(* the walker yields them in.                                              *)
C5_RerunSelectsTheSame ==
  (rerun /\ LoopEnded) => selected_files = prev_selected

\* The two runs scanned in different orders files that tie on tokens.
C5_Witness ==
  /\ rerun
  /\ pc = "done"
  /\ scan_order # prev_scan_order
  /\ Len(selected_files) >= 2
  /\ selected_files[1].tokens = selected_files[2].tokens

----------------------------------------------------------------------------
(* C6.  As claimed: with --extensions, a file whose suffix equals one of   *)
(* the caller's extensions up to letter case is accepted; so a readable    *)
(* file with such a suffix, outside the skip-directories and the skip-file *)
(* set, is a candidate of the scan.                                        *)
C6_ExtensionTestIgnoresCase ==
  AfterScan =>
    \A f \in tree :
      ( /\ f.readable
        /\ ~HasSkipSegment(root \o f.path)
        /\ PathName(f.path) \notin SKIP_FILES
        /\ \E e \in custom_ext : Lower(e) = Lower(Suffix(PathName(f.path))) )
      => f.path \in Paths(files_data)

----------------------------------------------------------------------------
(* C7.  As claimed: under every allow-list a readable file with no         *)
(* extension, whose base name is not a skip-file name and none of whose    *)
(* directories (the root's included) is a skip-directory, is a candidate   *)
(* of the scan.                                                            *)
C7_ExtensionlessAlwaysCandidates ==
  AfterScan =>
    \A f \in tree :
      ( /\ f.readable
        /\ Suffix(PathName(f.path)) = << >>
        /\ PathName(f.path) \notin SKIP_FILES
        /\ ~UnderSkipDir(root \o f.path) )
      => f.path \in Paths(files_data)

----------------------------------------------------------------------------
(* C8.  No candidate lies under a directory named exactly as a             *)
(* skip-directory; a skip name that is only a substring of a directory's   *)
(* name (builder, my_venv) excludes nothing: a readable file that passes   *)
(* the file tests and has no part equal to a skip name is a candidate.     *)
C8_SkipDirsByExactSegment ==
  AfterScan =>
    /\ \A p \in Paths(files_data) : ~UnderSkipDir(root \o p)
    /\ \A f \in tree :
         ( /\ f.readable
           /\ PathName(f.path) \notin SKIP_FILES
           /\ ( Lower(Suffix(PathName(f.path))) \in ActiveExtensions
                \/ Suffix(PathName(f.path)) = << >> )
           /\ ~HasSkipSegment(root \o f.path) )
         => f.path \in Paths(files_data)

\* build/x.py, builder/x.py and my_venv/x.py were scanned from `proj`: the
\* first is no candidate, the other two are.
C8_Witness ==
  /\ pc = "prioritize"
  /\ root = PlainRoot
  /\ { << build, x_py >>, << builder, x_py >>, << my_venv, x_py >> }
       = { f.path : f \in tree }
  /\ Paths(files_data) = { << builder, x_py >>, << my_venv, x_py >> }

----------------------------------------------------------------------------
(* C9.  As claimed: a run the user interrupts ends with exit status 1 and  *)
(* leaves the destination untouched or complete, never truncated.          *)
C9_InterruptLeavesNoTruncatedFile ==
  pc = "cancelled" =>
    /\ exit_code = 1
    /\ (~out_file.exists \/ out_file.complete)

----------------------------------------------------------------------------
(* C10.  As claimed: whether a file is a candidate is decided by its path  *)
(* relative to the root alone, so the same tree yields the same relative   *)
(* candidates under every root: every readable file with no directory      *)
(* beneath the root named as a skip-directory, whose base name is no       *)
(* skip-file name and whose extension passes, is listed exactly once, and  *)
(* nothing else is.                                                        *)
C10_CandidatesDependOnRelativePathOnly ==
  AfterScan =>
    LET passes(f) == /\ f.readable
                     /\ ~UnderSkipDir(f.path)
                     /\ should_include_file(f.path, custom_ext)
    IN  /\ Paths(files_data) = { f.path : f \in { g \in tree : passes(g) } }
        /\ \A p \in Paths(files_data) : Occurrences(files_data, p) = 1

----------------------------------------------------------------------------
Next ==
  \/ ScanStep
  \/ ScanDone
  \/ Prioritize
  \/ SelectInclude
  \/ SelectBreak
  \/ SelectEnd
  \/ OpenOutput
  \/ OpenFails
  \/ WriteHeader
  \/ WriteFile
  \/ CloseOutput
  \/ Interrupt
  \/ Rerun

Spec == Init /\ [][Next]_vars

SpecWalk == InitWalk /\ [][Next]_vars

SpecSelect == InitSelect /\ [][Next]_vars

============================================================================
